---- MODULE Spec2Model ----
(***************************************************************************)
(* Model of the ComfyUI YAML nodes: YAMLImageCycler, YAMLImageCyclerSimple *)
(* (per-category round-robin cursor over the images of a folder) and       *)
(* YAMLLoRAExtractor, YAMLLoRALoader, YAMLLoRASelector (parsing of         *)
(* "<lora:name:weight>" strings and resolution of the name against the     *)
(* host's list of LoRA files).                                             *)
(*                                                                         *)
(* Python strings are modelled as sequences of one-character strings, so   *)
(* that startswith, endswith, split, strip, lower, splitext and sorted are *)
(* computed character by character as the interpreter does.                *)
(***************************************************************************)
EXTENDS Integers, Sequences, FiniteSets, TLC

VARIABLES
    cursor,     \* cursor[i]   : the dict self._cursor of cycler instance i
    yaml_buf,   \* yaml_buf[i] : the dict self._yaml_buf of cycler instance i
    yaml_file,  \* file system: content of the configuration file
    folders,    \* file system: folders[<<parent_dir, category>>]
    ret,        \* outcome of the last execute call of a cycler
    hist,       \* observer of one instance and category: selections since first seen
    ncalls,     \* number of execute calls made so far
    nenv,       \* number of file system changes made so far
    raw,        \* parser: the value handed to _parse_lora_string
    parsed,     \* parser: what _parse_lora_string returned
    lora_in,    \* resolver: name, inventory and host behaviour
    lora_out    \* resolver: outcome of the last resolver / execute call

vars == <<cursor, yaml_buf, yaml_file, folders, ret, hist, ncalls, nenv,
          raw, parsed, lora_in, lora_out>>

cyclerVars == <<cursor, yaml_buf, yaml_file, folders, ret, hist, ncalls, nenv>>
parseVars  == <<raw, parsed>>
loraVars   == <<lora_in, lora_out>>

(***************************************************************************)
(* Bounds of the model.                                                    *)
(***************************************************************************)
MaxCalls == 3      \* execute calls explored per behaviour
MaxEnv   == 1      \* file system changes explored per behaviour

(***************************************************************************)
(* Characters and strings.                                                 *)
(***************************************************************************)
\* ord(c) for the characters the model uses
Code(c) ==
    CASE c = " " -> 32 [] c = "." -> 46 [] c = "/" -> 47
      [] c = "0" -> 48 [] c = "1" -> 49 [] c = "2" -> 50 [] c = "5" -> 53
      [] c = ":" -> 58 [] c = "<" -> 60 [] c = ">" -> 62
      [] c = "A" -> 65 [] c = "B" -> 66 [] c = "F" -> 70 [] c = "G" -> 71
      [] c = "N" -> 78 [] c = "O" -> 79 [] c = "P" -> 80
      [] c = "a" -> 97 [] c = "b" -> 98 [] c = "c" -> 99 [] c = "e" -> 101
      [] c = "f" -> 102 [] c = "g" -> 103 [] c = "h" -> 104 [] c = "i" -> 105
      [] c = "j" -> 106 [] c = "k" -> 107 [] c = "l" -> 108 [] c = "m" -> 109
      [] c = "n" -> 110 [] c = "o" -> 111 [] c = "p" -> 112 [] c = "r" -> 114
      [] c = "s" -> 115 [] c = "t" -> 116 [] c = "w" -> 119 [] c = "x" -> 120
      [] OTHER -> 0

\* str.lower() on one character
LowerChar(c) ==
    CASE c = "A" -> "a" [] c = "B" -> "b" [] c = "F" -> "f" [] c = "G" -> "g"
      [] c = "N" -> "n" [] c = "O" -> "o" [] c = "P" -> "p"
      [] OTHER -> c

\* str.lower()
lower(s) == [k \in 1..Len(s) |-> LowerChar(s[k])]

\* str.startswith(p)
startswith(s, p) == Len(s) >= Len(p) /\ SubSeq(s, 1, Len(p)) = p

\* str.endswith(p)
endswith(s, p) == Len(s) >= Len(p) /\ SubSeq(s, Len(s) - Len(p) + 1, Len(s)) = p

\* s < t for Python strings (code point order, a proper prefix is smaller)
StrLess(s, t) ==
    \E k \in 1..(Len(t)) :
        /\ \A j \in 1..(k - 1) : j <= Len(s) /\ s[j] = t[j]
        /\ k - 1 <= Len(s)
        /\ \/ k = Len(s) + 1
           \/ k <= Len(s) /\ Code(s[k]) < Code(t[k])

\* sorted(S) for a set of distinct strings
RECURSIVE sorted(_)
sorted(S) ==
    IF S = {} THEN << >>
    ELSE LET m == CHOOSE x \in S : \A y \in S \ {x} : StrLess(x, y)
         IN  <<m>> \o sorted(S \ {m})

Max(S) == CHOOSE x \in S : \A y \in S : y <= x
Min(S) == CHOOSE x \in S : \A y \in S : x <= y

\* os.path.splitext(p): the extension starts at the last dot of the last path
\* component, unless only dots precede it in that component
splitext(p) ==
    LET seps == {k \in 1..Len(p) : p[k] = "/"}
        sep  == IF seps = {} THEN 0 ELSE Max(seps)
        dots == {k \in (sep + 1)..Len(p) : p[k] = "."}
        dot  == IF dots = {} THEN 0 ELSE Max(dots)
    IN  IF dot = 0 \/ \A k \in (sep + 1)..(dot - 1) : p[k] = "."
        THEN <<p, << >>>>
        ELSE <<SubSeq(p, 1, dot - 1), SubSeq(p, dot, Len(p))>>

(***************************************************************************)
(* Python dicts are functions whose domain is the set of keys present.     *)
(***************************************************************************)
EmptyDict == [k \in {} |-> 0]

DictGet(d, k, default) == IF k \in DOMAIN d THEN d[k] ELSE default

DictSet(d, k, v) == [x \in (DOMAIN d) \cup {k} |-> IF x = k THEN v ELSE d[x]]


(***************************************************************************)
(* The world of the cycler nodes.                                          *)
(***************************************************************************)
Instances == {"full", "simple"}      \* a YAMLImageCycler and a YAMLImageCyclerSimple

Categories    == {"x", "y"}          \* the keys of the configuration mapping
ReqCategories == {"x", "y", "z"}     \* "z" is never a key
ParentDirs    == {"dataA", "dataB"}

\* the default of the yaml_path input, and a second spelling of the same file
DefaultYaml == "setting.yaml"
YamlPaths   == {"setting.yaml", "./setting.yaml"}

\* os.path.abspath: both spellings name one file of the working directory
abspath(p) == "/cwd/setting.yaml"

\* what the configuration file can hold: no file at all, an empty document
\* (yaml.safe_load gives None), or the mapping with the keys x and y
YamlContents == {"nofile", "none", "xy"}

IsNone(doc) == doc = "none"

Keys(doc) == IF doc = "xy" THEN {"x", "y"} ELSE {}

\* file names that can appear in a category folder
F_a_png == <<"a", ".", "p", "n", "g">>
F_b_jpg == <<"b", ".", "j", "p", "g">>
F_B_PNG == <<"B", ".", "P", "N", "G">>
F_n_txt == <<"n", ".", "t", "x", "t">>
Files == {F_a_png, F_b_jpg, F_B_PNG, F_n_txt}

\* a second picture with the name b, which comes into a folder only in the
\* runs about the search for a mask
F_b_png == <<"b", ".", "p", "n", "g">>
SearchFiles == Files \cup {F_b_png}

NoDir == {<<"nodir">>}               \* marks a folder that does not exist

\* the folder tree before any change: three images (other files can come),
\* one image, two images, and a folder holding no image at all
InitFolders ==
    [d \in ParentDirs \X Categories |->
        CASE d = <<"dataA", "x">> -> {F_a_png, F_b_jpg, F_B_PNG}
          [] d = <<"dataA", "y">> -> {F_a_png, F_n_txt}
          [] d = <<"dataB", "x">> -> {F_b_jpg, F_B_PNG}
          [] OTHER                -> {F_n_txt}]

\* the folders whose content changes while the nodes run
ChangingDirs == {<<"dataA", "x">>}

\* os.path.isdir(os.path.join(parent_dir, category))
isdir(parent_dir, category) ==
    /\ <<parent_dir, category>> \in DOMAIN folders
    /\ folders[<<parent_dir, category>>] # NoDir

\* os.listdir of an existing folder
listdir(parent_dir, category) == folders[<<parent_dir, category>>]

supported_extensions ==
    { <<".", "p", "n", "g">>, <<".", "j", "p", "g">>, <<".", "j", "p", "e", "g">>,
      <<".", "b", "m", "p">>, <<".", "w", "e", "b", "p">>,
      <<".", "t", "i", "f", "f">>, <<".", "t", "g", "a">> }

\* sorted(f for f in names if f.lower().endswith(supported_extensions)),
\* tabulated once for every set of names a folder can hold (@@ makes the
\* function an explicit table instead of a rule evaluated at every use)
SortedImages ==
    [names \in SUBSET SearchFiles |->
        sorted({ f \in names : \E e \in supported_extensions : endswith(lower(f), e) })]
    @@ << >>

\* a listing remembered from the first time the folder was read
ImageList_remembered(parent_dir, category) ==
    SortedImages[InitFolders[<<parent_dir, category>>]]

\* the images of a category folder as _get_image_files lists them
ImageList(parent_dir, category) == SortedImages[listdir(parent_dir, category)]

\* _get_image_files: the sorted images of the folder, or the error raised
get_image_files(parent_dir, category) ==
    IF ~isdir(parent_dir, category)
    THEN [err |-> "FileNotFoundError_folder", images |-> << >>]
    ELSE LET images == ImageList(parent_dir, category)
         IN  IF images = << >>
             THEN [err |-> "RuntimeError_noimages", images |-> << >>]
             ELSE [err |-> "", images |-> images]

\* os.path.exists of the configuration file
exists_yaml(path) == yaml_file # "nofile"

\* a loader that parses the file again on every call
load_yaml_reloading(buf, path) ==
    IF ~exists_yaml(path)
    THEN [err |-> "FileNotFoundError_yaml", buf |-> buf, cfg |-> "nofile"]
    ELSE [err |-> "", buf |-> DictSet(buf, path, yaml_file), cfg |-> yaml_file]

\* YAMLImageCycler._load_yaml: the cache is keyed by the path as given
load_yaml_full(buf, path) ==
    IF ~exists_yaml(path)
    THEN [err |-> "FileNotFoundError_yaml", buf |-> buf, cfg |-> "nofile"]
    ELSE IF path \notin DOMAIN buf
         THEN [err |-> "", buf |-> DictSet(buf, path, yaml_file), cfg |-> yaml_file]
         ELSE [err |-> "", buf |-> buf, cfg |-> buf[path]]

\* YAMLImageCyclerSimple._load_yaml: the cache is keyed by the absolute path
load_yaml_simple(buf, path) ==
    LET abs_path == abspath(path)
    IN  IF ~exists_yaml(abs_path)
        THEN [err |-> "FileNotFoundError_yaml", buf |-> buf, cfg |-> "nofile"]
        ELSE IF abs_path \notin DOMAIN buf
             THEN [err |-> "", buf |-> DictSet(buf, abs_path, yaml_file), cfg |-> yaml_file]
             ELSE [err |-> "", buf |-> buf, cfg |-> buf[abs_path]]

\* a read of the cursor that trusts the stored value
current_idx_stored(cur, category, images) == DictGet(cur, category, 0)

\* current_idx = self._cursor.get(category, 0) % len(images)
current_idx(cur, category, images) == DictGet(cur, category, 0) % Len(images)

\* a cursor that is reduced but never advanced
next_idx_same(idx, images) == idx % Len(images)

\* a cursor that counts the calls and is reduced only when read
next_idx_unreduced(idx, images) == idx + 1

\* the value stored for the next call: (current_idx + 1) % len(images)
next_idx(idx, images) == (idx + 1) % Len(images)

\* a cursor step that creates the category's entry before the folder is listed
cycle_entry_first(cur, parent_dir, category) ==
    LET gi   == get_image_files(parent_dir, category)
        cur0 == DictSet(cur, category, DictGet(cur, category, 0))
    IN  IF gi.err # ""
        THEN [err |-> gi.err, cursor |-> cur0, idx |-> -1, images |-> << >>]
        ELSE LET idx == current_idx(cur0, category, gi.images)
             IN  [err |-> "", idx |-> idx, images |-> gi.images,
                  cursor |-> DictSet(cur0, category, next_idx(idx, gi.images))]

\* a cursor step that keeps its entries by parent folder
cycle_per_folder(cur, parent_dir, category) ==
    LET gi == get_image_files(parent_dir, category)
    IN  IF gi.err # ""
        THEN [err |-> gi.err, cursor |-> cur, idx |-> -1, images |-> << >>]
        ELSE LET idx == current_idx(cur, parent_dir, gi.images)
             IN  [err |-> "", idx |-> idx, images |-> gi.images,
                  cursor |-> DictSet(cur, parent_dir, next_idx(idx, gi.images))]

\* execute, from the listing of the category folder to the cursor update
cycle(cur, parent_dir, category) ==
    LET gi == get_image_files(parent_dir, category)
    IN  IF gi.err # ""
        THEN [err |-> gi.err, cursor |-> cur, idx |-> -1, images |-> << >>]
        ELSE LET idx == current_idx(cur, category, gi.images)
             IN  [err |-> "", idx |-> idx, images |-> gi.images,
                  cursor |-> DictSet(cur, category, next_idx(idx, gi.images))]

\* outcomes of _load_image_as_tensor for the selected file
ImageLoads == {"ok", "FileNotFoundError_image", "RuntimeError_decode"}

\* height and width of the pictures the files hold
ImageSize(f) ==
    CASE f = F_a_png -> <<2, 3>>
      [] f = F_b_jpg -> <<3, 2>>
      [] OTHER       -> <<1, 4>>

\* the shape of the tensor _load_image_as_tensor returns: [1, H, W, 3]
image_tensor_shape(f) == <<1, ImageSize(f)[1], ImageSize(f)[2], 3>>

\* category_config.get("mask_folder"): category y names the folder "m",
\* category x has no such entry ("" stands for None)
mask_folder_config(cfg, category) ==
    IF cfg = "xy" /\ category = "y" THEN "m" ELSE ""

\* os.path.isdir(os.path.join(parent_dir, mask_folder)): dataA holds a
\* folder m, dataB does not
isdir_mask_folder(parent_dir, mask_folder) ==
    mask_folder = "m" /\ parent_dir = "dataA"

\* mask_extensions of _find_mask_file, in the order they are tried
mask_extensions ==
    << <<".", "p", "n", "g">>, <<".", "j", "p", "g">>, <<".", "j", "p", "e", "g">>,
       <<".", "b", "m", "p">>, <<".", "w", "e", "b", "p">> >>

\* what the folder searched first (the configured mask folder when it is a
\* directory, otherwise the subfolder masks of the image's folder) holds
\* under the image's name: no file, a mask that decodes, or bytes that do not
MaskCases == {"absent", "good", "undecodable"}

NoMaskFile == [place |-> "", file |-> << >>]      \* _find_mask_file returns None

\* image_name + ext for every ext of mask_extensions, where image_name is
\* os.path.splitext(os.path.basename(image_path))[0], tabulated per file
MaskNames ==
    [f \in SearchFiles |-> [k \in 1..Len(mask_extensions) |->
                        splitext(f)[1] \o mask_extensions[k]]]
    @@ << >>

\* a search that never takes the image's own file for its mask
find_mask_file_but_image(parent_dir, category, image, mask_folder, mask) ==
    LET hits == { k \in 1..Len(mask_extensions) :
                     /\ MaskNames[image][k] \in listdir(parent_dir, category)
                     /\ MaskNames[image][k] # image }
    IN  IF mask # "absent"
        THEN [place |-> "mask_dir", file |-> << >>]
        ELSE IF mask_folder # "" /\ isdir_mask_folder(parent_dir, mask_folder)
        THEN NoMaskFile
        ELSE IF hits = {}
        THEN NoMaskFile
        ELSE [place |-> "image_dir", file |-> MaskNames[image][Min(hits)]]

\* _find_mask_file: the first existing image_name + ext of the first search
\* directory that has one.  Without a usable mask_folder the directories are
\* image_dir/masks and then image_dir itself, where the names of the
\* category folder are looked up as they are (the image's own name included).
find_mask_file(parent_dir, category, image, mask_folder, mask) ==
    LET hits == { k \in 1..Len(mask_extensions) :
                     MaskNames[image][k] \in listdir(parent_dir, category) }
    IN  IF mask # "absent"
        THEN [place |-> "mask_dir", file |-> << >>]
        ELSE IF mask_folder # "" /\ isdir_mask_folder(parent_dir, mask_folder)
        THEN NoMaskFile
        ELSE IF hits = {}
        THEN NoMaskFile
        ELSE [place |-> "image_dir", file |-> MaskNames[image][Min(hits)]]

\* _create_empty_mask(height, width): np.zeros((1, height, width))
create_empty_mask(height, width) ==
    [kind |-> "zeros", shape |-> <<1, height, width>>]

\* a mask loader that wraps the decoding error and raises it, as the image
\* loader does
load_mask_raising(found, image, mask) ==
    IF found.place = "mask_dir" /\ mask = "undecodable"
    THEN [err |-> "RuntimeError_decode", mask |-> [kind |-> "", shape |-> << >>]]
    ELSE [err |-> "", mask |-> [kind |-> "file", shape |-> << >>]]

\* _load_mask_as_tensor(mask_path): the tensor of the file, or None when the
\* file cannot be decoded (the exception is printed and swallowed).  The
\* image's own file decoded a moment ago, so it decodes again.
load_mask_as_tensor(found, image, mask) ==
    IF found.place = "mask_dir" /\ mask = "undecodable"
    THEN [err |-> "", mask |-> [kind |-> "None", shape |-> << >>]]
    ELSE IF found.place = "image_dir" /\ found.file = image
    THEN [err |-> "", mask |-> [kind |-> "image_itself", shape |-> << >>]]
    ELSE [err |-> "", mask |-> [kind |-> "file", shape |-> << >>]]

\* execute, from category_config.get("mask_folder") to the mask tensor
mask_step(cfg, parent_dir, category, image, mask) ==
    LET found == find_mask_file(parent_dir, category, image,
                                mask_folder_config(cfg, category), mask)
    IN  IF found # NoMaskFile
        THEN load_mask_as_tensor(found, image, mask)
        ELSE [err |-> "",
              mask |-> create_empty_mask(image_tensor_shape(image)[2],
                                         image_tensor_shape(image)[3])]

NoMask == [kind |-> "", shape |-> << >>]           \* execute returned no mask

\* execute ended with an exception before any mask was made
raised(outcome, cur, ld, idx, images) ==
    [outcome |-> outcome, cursor |-> cur, buf |-> ld.buf, idx |-> idx,
     images |-> images, cfg |-> ld.cfg, mask_in |-> "", mask |-> NoMask]

\* the body of execute once the configuration is loaded (the same statements
\* in both cycler classes); ld is what _load_yaml gave, load what loading the
\* selected image will give, mask what the mask folder holds for it.
\* idx = -1 says the cursor step was not reached, mask_in = "" that the
\* search for a mask was not reached.
execute_body(cur, ld, parent_dir, category, load, mask) ==
    IF ld.err # ""
    THEN raised(ld.err, cur, ld, -1, << >>)
    ELSE IF IsNone(ld.cfg)
    THEN \* "category not in cfg" with cfg = None
         raised("TypeError_none", cur, ld, -1, << >>)
    ELSE IF category \notin Keys(ld.cfg)
    THEN raised("ValueError_category", cur, ld, -1, << >>)
    ELSE LET cy == cycle(cur, parent_dir, category)
         IN  IF cy.err # ""
             THEN raised(cy.err, cy.cursor, ld, -1, << >>)
             ELSE IF cy.idx >= Len(cy.images)
             THEN \* images[current_idx] outside the list
                  raised("IndexError", cy.cursor, ld, cy.idx, cy.images)
             ELSE IF load # "ok"
             THEN raised(load, cy.cursor, ld, cy.idx, cy.images)
             ELSE LET ms == mask_step(ld.cfg, parent_dir, category,
                                      cy.images[cy.idx + 1], mask)
                  IN  IF ms.err # ""
                      THEN [raised(ms.err, cy.cursor, ld, cy.idx, cy.images)
                               EXCEPT !.mask_in = mask]
                      ELSE [outcome |-> "ok", cursor |-> cy.cursor, buf |-> ld.buf,
                            idx |-> cy.idx, images |-> cy.images, cfg |-> ld.cfg,
                            mask_in |-> mask, mask |-> ms.mask]

\* bookkeeping for the round-robin property: the images selected for the
\* observed category of the observed instance since the category was first
\* seen, as long as every call succeeded and saw the same asset list
hist_step(h, seenBefore, res) ==
    IF res.outcome = "ok"
    THEN IF h.status = "unseen" /\ ~seenBefore
         THEN [h EXCEPT !.status = "run", !.list = res.images,
                        !.sels = <<res.images[res.idx + 1]>>]
         ELSE IF h.status = "run" /\ h.list = res.images
         THEN [h EXCEPT !.sels = Append(@, res.images[res.idx + 1])]
         ELSE [h EXCEPT !.status = "broken", !.list = << >>, !.sels = << >>]
    ELSE IF h.status = "unseen" /\ res.idx = -1 /\ res.cursor = cursor[h.inst]
         THEN h
         ELSE [h EXCEPT !.status = "broken", !.list = << >>, !.sels = << >>]

\* state kept in one place for all node objects
store_shared(i, res) ==
    /\ cursor'   = [j \in Instances |-> res.cursor]
    /\ yaml_buf' = [j \in Instances |-> res.buf]

\* a cursor that is written back only by a call that returned
store_if_returned(i, res) ==
    /\ cursor'   = IF res.outcome = "ok" THEN [cursor EXCEPT ![i] = res.cursor]
                   ELSE cursor
    /\ yaml_buf' = [yaml_buf EXCEPT ![i] = res.buf]

\* self._cursor and self._yaml_buf are attributes of the node object
\* (__init__), so a call writes the dicts of its own instance only
store(i, res) ==
    /\ cursor'   = [cursor EXCEPT ![i] = res.cursor]
    /\ yaml_buf' = [yaml_buf EXCEPT ![i] = res.buf]

\* effect of one execute call of instance i that ended as res
finish_call(i, yaml_path, parent_dir, category, mask, res) ==
    /\ store(i, res)
    /\ ret' = [inst |-> i, yaml_path |-> yaml_path, parent_dir |-> parent_dir,
               category |-> category, outcome |-> res.outcome, idx |-> res.idx,
               n |-> Len(res.images), pre |-> DictGet(cursor[i], category, -1),
               cfg |-> res.cfg, images |-> res.images,
               mask_in |-> res.mask_in, mask |-> res.mask]
    /\ hist' = IF hist.inst = i /\ hist.category = category
               THEN hist_step(hist, category \in DOMAIN cursor[i], res)
               ELSE hist
    /\ ncalls' = ncalls + 1
    /\ UNCHANGED <<yaml_file, folders, nenv>>

\* YAMLImageCycler.execute
YAMLImageCycler_execute(yaml_path, parent_dir, category, load, mask) ==
    /\ ncalls < MaxCalls
    /\ \E ld \in {load_yaml_full(yaml_buf["full"], yaml_path)} :
       \E res \in {execute_body(cursor["full"], ld, parent_dir, category, load, mask)} :
          /\ (res.outcome # load => load = "ok")
          /\ (res.mask_in = "" => mask = "absent")
          /\ finish_call("full", yaml_path, parent_dir, category, mask, res)
    /\ UNCHANGED <<parseVars, loraVars>>

\* YAMLImageCyclerSimple.execute: the path is made absolute and checked
\* before _load_yaml does the same again
YAMLImageCyclerSimple_execute(yaml_path, parent_dir, category, load, mask) ==
    /\ ncalls < MaxCalls
    /\ \E ld \in { IF ~exists_yaml(abspath(yaml_path))
                   THEN [err |-> "FileNotFoundError_yaml",
                         buf |-> yaml_buf["simple"], cfg |-> "nofile"]
                   ELSE load_yaml_simple(yaml_buf["simple"], abspath(yaml_path)) } :
       \E res \in {execute_body(cursor["simple"], ld, parent_dir, category, load, mask)} :
          /\ (res.outcome # load => load = "ok")
          /\ (res.mask_in = "" => mask = "absent")
          /\ finish_call("simple", yaml_path, parent_dir, category, mask, res)
    /\ UNCHANGED <<parseVars, loraVars>>

(***************************************************************************)
(* The file system changes under the nodes, between two calls.             *)
(***************************************************************************)
\* the configuration file is written, emptied or deleted
WriteYaml(content) ==
    /\ nenv < MaxEnv
    /\ content # yaml_file
    /\ yaml_file' = content
    /\ nenv' = nenv + 1
    /\ UNCHANGED <<cursor, yaml_buf, folders, ret, hist, ncalls, parseVars, loraVars>>

\* a file appears in a category folder
AddFile(d, f) ==
    /\ nenv < MaxEnv
    /\ folders[d] # NoDir
    /\ f \notin folders[d]
    /\ folders' = [folders EXCEPT ![d] = @ \cup {f}]
    /\ nenv' = nenv + 1
    /\ UNCHANGED <<cursor, yaml_buf, yaml_file, ret, hist, ncalls, parseVars, loraVars>>

\* a file is deleted from a category folder
RemoveFile(d, f) ==
    /\ nenv < MaxEnv
    /\ folders[d] # NoDir
    /\ f \in folders[d]
    /\ folders' = [folders EXCEPT ![d] = @ \ {f}]
    /\ nenv' = nenv + 1
    /\ UNCHANGED <<cursor, yaml_buf, yaml_file, ret, hist, ncalls, parseVars, loraVars>>

\* a category folder is deleted with its files
RemoveFolder(d) ==
    /\ nenv < MaxEnv
    /\ folders[d] # NoDir
    /\ folders' = [folders EXCEPT ![d] = NoDir]
    /\ nenv' = nenv + 1
    /\ UNCHANGED <<cursor, yaml_buf, yaml_file, ret, hist, ncalls, parseVars, loraVars>>

NoCall == [inst |-> "", yaml_path |-> "", parent_dir |-> "", category |-> "",
           outcome |-> "", idx |-> -1, n |-> 0, pre |-> -1, cfg |-> "",
           images |-> << >>, mask_in |-> "", mask |-> NoMask]

\* the observer watches one category of one instance, chosen freely
Unseen == { [inst |-> i, category |-> c, status |-> "unseen", list |-> << >>,
             sels |-> << >>] : i \in Instances, c \in Categories }

\* the nodes as constructed (__init__: both dicts empty) over the initial tree
CyclerInit ==
    /\ cursor   = [i \in Instances |-> EmptyDict]
    /\ yaml_buf = [i \in Instances |-> EmptyDict]
    /\ yaml_file = "xy"
    /\ folders = InitFolders
    /\ ret = NoCall
    /\ hist \in Unseen
    /\ ncalls = 0
    /\ nenv = 0

ParseIdle == raw = << >> /\ parsed = << >>
LoraIdle  == lora_in = << >> /\ lora_out = << >>

Init == CyclerInit /\ ParseIdle /\ LoraIdle

Next ==
    \/ \E d \in ParentDirs, c \in ReqCategories, l \in ImageLoads :
          YAMLImageCycler_execute(DefaultYaml, d, c, l, "absent")
    \/ \E d \in ParentDirs, c \in ReqCategories, l \in ImageLoads :
          YAMLImageCyclerSimple_execute(DefaultYaml, d, c, l, "absent")
    \/ \E content \in YamlContents : WriteYaml(content)
    \/ \E d \in ChangingDirs, f \in Files : AddFile(d, f)
    \/ \E d \in ChangingDirs, f \in Files : RemoveFile(d, f)
    \/ \E d \in ChangingDirs : RemoveFolder(d)

Spec == Init /\ [][Next]_vars

\* the cyclers over every content of the mask folder, the tree left alone
NextMask ==
    \/ \E d \in ParentDirs, c \in Categories, l \in ImageLoads, m \in MaskCases :
          YAMLImageCycler_execute(DefaultYaml, d, c, l, m)
    \/ \E d \in ParentDirs, c \in Categories, l \in ImageLoads, m \in MaskCases :
          YAMLImageCyclerSimple_execute(DefaultYaml, d, c, l, m)

SpecMask == Init /\ [][NextMask]_vars

\* the folder whose content changes in the run below
TreeDir == <<"dataB", "x">>

\* the cyclers called for one category under both parent folders while the
\* files of one of the two folders come and go
NextTree ==
    \/ \E d \in ParentDirs : YAMLImageCycler_execute(DefaultYaml, d, "x", "ok", "absent")
    \/ \E d \in ParentDirs : YAMLImageCyclerSimple_execute(DefaultYaml, d, "x", "ok", "absent")
    \/ \E f \in Files : AddFile(TreeDir, f)
    \/ \E f \in Files : RemoveFile(TreeDir, f)
    \/ RemoveFolder(TreeDir)

SpecTree == Init /\ [][NextTree]_vars

(***************************************************************************)
(* Properties of the cyclers.                                              *)
(***************************************************************************)
\* a call was made in this step
Called == ncalls' = ncalls + 1

\* C1: on one instance, for a category never seen before whose asset list
\* stays the same list of N >= 1 names, the k-th of consecutive successful
\* calls selects the asset at index (k-1) mod N of the sorted list: the first
\* N calls take every asset once, in order, and call N+1 takes the first again.
C1_RoundRobin ==
    hist.status = "run" =>
        /\ Len(hist.list) >= 1
        /\ \A a, b \in 1..Len(hist.list) : a < b => StrLess(hist.list[a], hist.list[b])
        /\ \A k \in 1..Len(hist.sels) :
              hist.sels[k] = hist.list[((k - 1) % Len(hist.list)) + 1]

\* a run over a list of two assets that has wrapped to the first one
C1_Witness ==
    /\ hist.status = "run"
    /\ Len(hist.list) = 2
    /\ Len(hist.sels) = 3

\* C2: a call that finds a stored cursor value v for its category and an
\* asset list of length M >= 1 (whatever the length was when v was stored)
\* selects index v mod M, stores (that index + 1) mod M, and does not index
\* outside the list.
C2_StaleCursor ==
    (ret.idx # -1 /\ ret.pre >= 0) =>
        /\ ret.n >= 1
        /\ ret.idx = ret.pre % ret.n
        /\ ret.idx < ret.n
        /\ ret.outcome # "IndexError"
        /\ ret.category \in DOMAIN cursor[ret.inst]
        /\ cursor[ret.inst][ret.category] = (ret.idx + 1) % ret.n

\* a call that found a stored value beyond the end of a list that had shrunk
C2_Witness ==
    /\ ret.idx # -1
    /\ ret.pre >= ret.n
    /\ ret.outcome = "ok"

\* the errors execute raises before it reaches the cursor
PreCursorErrors == {"FileNotFoundError_yaml", "ValueError_category",
                    "FileNotFoundError_folder", "RuntimeError_noimages"}

\* C3: a call that ends with the configuration file missing, the category
\* absent from the configuration, the category folder missing or no image in
\* the folder leaves the cursor mapping of every instance exactly as it was.
C3_FailureKeepsCursor ==
    [][ (Called /\ ret'.outcome \in PreCursorErrors) => cursor' = cursor ]_vars

\* a call on an instance that already holds cursor entries found no image
C3_Witness ==
    /\ ret.outcome = "RuntimeError_noimages"
    /\ DOMAIN cursor[ret.inst] # {}

\* C4: a call for category c on instance i leaves the cursor and the cache
\* of every other instance, and the cursor entries of i for every other
\* category, as they were; the first call of i for c selects index 0
\* whatever any other instance has stored for c.
C4_Frame ==
    [][ Called =>
          /\ \A j \in Instances \ {ret'.inst} :
                cursor'[j] = cursor[j] /\ yaml_buf'[j] = yaml_buf[j]
          /\ DOMAIN cursor[ret'.inst] \subseteq DOMAIN cursor'[ret'.inst]
          /\ \A c \in DOMAIN cursor'[ret'.inst] \ {ret'.category} :
                /\ c \in DOMAIN cursor[ret'.inst]
                /\ cursor'[ret'.inst][c] = cursor[ret'.inst][c]
          /\ (ret'.idx # -1 /\ ret'.category \notin DOMAIN cursor[ret'.inst])
                => ret'.idx = 0
      ]_vars

\* the simple cycler starts category x at index 0 after the full cycler,
\* which also holds an entry for y, has already advanced its own x to 1
C4_Witness ==
    /\ ret.inst = "simple" /\ ret.category = "x"
    /\ ret.pre = -1 /\ ret.idx = 0
    /\ DOMAIN cursor["full"] = {"x", "y"}
    /\ cursor["full"]["x"] = 1

(***************************************************************************)
(* Parsing of LoRA references: _parse_lora_string.                         *)
(***************************************************************************)
MaxBody == 4       \* characters between the prefix and the suffix of an input

\* Python values a configuration field can hold: a string, or something
\* that is not a string (None, the integers 0 and 5)
Str(s)    == [t |-> "str", s |-> s]
PyNone    == [t |-> "none", s |-> << >>]
PyInt0    == [t |-> "int0", s |-> << >>]
PyInt5    == [t |-> "int5", s |-> << >>]

\* bool(v)
truthy(v) == IF v.t = "str" THEN v.s # << >> ELSE v.t = "int5"

\* isinstance(v, str)
isstr(v) == v.t = "str"

IsSpace(c) == c = " "

\* str.strip()
RECURSIVE lstrip(_)
lstrip(s) == IF s # << >> /\ IsSpace(s[1]) THEN lstrip(Tail(s)) ELSE s

RECURSIVE rstrip(_)
rstrip(s) == IF s # << >> /\ IsSpace(s[Len(s)])
             THEN rstrip(SubSeq(s, 1, Len(s) - 1)) ELSE s

strip(s) == rstrip(lstrip(s))

\* str.split(c) for a one-character separator
RECURSIVE split(_, _)
split(s, c) ==
    IF \E k \in 1..Len(s) : s[k] = c
    THEN LET k == CHOOSE k \in 1..Len(s) : s[k] = c /\ \A j \in 1..(k - 1) : s[j] # c
         IN  <<SubSeq(s, 1, k - 1)>> \o split(SubSeq(s, k + 1, Len(s)), c)
    ELSE <<s>>

\* Numbers are decimal fractions m / 10^d kept in lowest form.
Num(m, d) == [m |-> m, d |-> d]
One == Num(1, 0)

RECURSIVE Lowest(_)
Lowest(x) == IF x.d > 0 /\ x.m % 10 = 0 THEN Lowest(Num(x.m \div 10, x.d - 1)) ELSE x

IsDigit(c) == c \in {"0", "1", "2", "5"}

RECURSIVE DigitsValue(_)
DigitsValue(s) == IF s = << >> THEN 0
                  ELSE 10 * DigitsValue(SubSeq(s, 1, Len(s) - 1)) + (Code(s[Len(s)]) - 48)

\* float(s) for a string of the model's characters: an optional sign, then
\* digits with at most one point and at least one digit; surrounding blanks
\* are ignored; anything else raises ValueError
float(s) ==
    LET t    == strip(s)
        neg  == t # << >> /\ t[1] = "-"
        u    == IF neg THEN Tail(t) ELSE t
        dots == {k \in 1..Len(u) : u[k] = "."}
        digs == [k \in 1..(Len(u) - Cardinality(dots)) |->
                    u[IF dots # {} /\ k >= (CHOOSE p \in dots : TRUE) THEN k + 1 ELSE k]]
        ok   == /\ \A k \in 1..Len(u) : IsDigit(u[k]) \/ u[k] = "."
                /\ Cardinality(dots) <= 1
                /\ Len(u) - Cardinality(dots) >= 1
    IN  IF ~ok THEN [err |-> "ValueError", val |-> One]
        ELSE LET d == IF dots = {} THEN 0 ELSE Len(u) - (CHOOSE p \in dots : TRUE)
                 m == DigitsValue(digs)
             IN  [err |-> "", val |-> Lowest(Num(IF neg THEN 0 - m ELSE m, d))]

LoraPrefix == <<"<", "l", "o", "r", "a", ":">>
LoraSuffix == <<">">>

\* try: weight = float(parts[1].strip())  except ValueError: weight = 1.0
weight_of(part) ==
    LET f == float(strip(part))
    IN  IF f.err = "" THEN [raised |-> "", weight |-> f.val]
        ELSE IF f.err = "ValueError" THEN [raised |-> "", weight |-> One]
        ELSE [raised |-> f.err, weight |-> One]

\* YAMLLoRAExtractor._parse_lora_string
Extractor_parse_lora_string(lora_string) ==
    IF ~truthy(lora_string) \/ ~isstr(lora_string)
    THEN [raised |-> "", name |-> << >>, weight |-> One]
    ELSE LET s == lora_string.s
             bare == [raised |-> "", name |-> strip(s), weight |-> One]
         IN  IF startswith(s, LoraPrefix) /\ endswith(s, LoraSuffix)
             THEN LET content == SubSeq(s, 7, Len(s) - 1)
                      parts   == split(content, ":")
                  IN  IF Len(parts) >= 2
                      THEN LET w == weight_of(parts[2])
                           IN  [raised |-> w.raised, name |-> strip(parts[1]),
                                weight |-> w.weight]
                      ELSE IF Len(parts) = 1
                      THEN [raised |-> "", name |-> strip(parts[1]), weight |-> One]
                      ELSE bare
             ELSE bare

\* a parser that takes the weight only from a reference of exactly two parts
Selector_parse_two_parts(lora_string) ==
    IF ~truthy(lora_string) \/ ~isstr(lora_string)
    THEN [raised |-> "", name |-> << >>, weight |-> One]
    ELSE LET s == lora_string.s
             bare == [raised |-> "", name |-> strip(s), weight |-> One]
         IN  IF startswith(s, LoraPrefix) /\ endswith(s, LoraSuffix)
             THEN LET content == SubSeq(s, 7, Len(s) - 1)
                      parts   == split(content, ":")
                  IN  IF Len(parts) = 2
                      THEN LET w == weight_of(parts[2])
                           IN  [raised |-> w.raised, name |-> strip(parts[1]),
                                weight |-> w.weight]
                      ELSE IF Len(parts) = 1
                      THEN [raised |-> "", name |-> strip(parts[1]), weight |-> One]
                      ELSE bare
             ELSE bare

\* YAMLLoRASelector._parse_lora_string
Selector_parse_lora_string(lora_string) ==
    IF ~truthy(lora_string) \/ ~isstr(lora_string)
    THEN [raised |-> "", name |-> << >>, weight |-> One]
    ELSE LET s == lora_string.s
             bare == [raised |-> "", name |-> strip(s), weight |-> One]
         IN  IF startswith(s, LoraPrefix) /\ endswith(s, LoraSuffix)
             THEN LET content == SubSeq(s, 7, Len(s) - 1)
                      parts   == split(content, ":")
                  IN  IF Len(parts) >= 2
                      THEN LET w == weight_of(parts[2])
                           IN  [raised |-> w.raised, name |-> strip(parts[1]),
                                weight |-> w.weight]
                      ELSE IF Len(parts) = 1
                      THEN [raised |-> "", name |-> strip(parts[1]), weight |-> One]
                      ELSE bare
             ELSE bare

\* the inputs: a prefix, up to MaxBody characters, a suffix; and non-strings
BodyChars == {"f", " ", ":", "1", ".", "-"}
Prefixes  == { << >>, LoraPrefix, <<" ">> \o LoraPrefix, <<"<", "l", "o", "r", "a">> }
Suffixes  == { << >>, LoraSuffix, LoraSuffix \o <<" ">> }
Bodies    == UNION { [1..n -> BodyChars] : n \in 0..MaxBody }

RawInputs ==
    { Str(p \o b \o x) : p \in Prefixes, b \in Bodies, x \in Suffixes }
        \cup {PyNone, PyInt0, PyInt5}

NotParsed == [by |-> "", raised |-> "", name |-> << >>, weight |-> One]

ParseInit ==
    /\ raw \in RawInputs
    /\ parsed = NotParsed

\* YAMLLoRAExtractor parses the value
ExtractorParse ==
    /\ parsed.by = ""
    /\ \E r \in {Extractor_parse_lora_string(raw)} :
          parsed' = [by |-> "extractor", raised |-> r.raised, name |-> r.name,
                     weight |-> r.weight]
    /\ UNCHANGED <<raw, cyclerVars, loraVars>>

\* YAMLLoRASelector parses the value
SelectorParse ==
    /\ parsed.by = ""
    /\ \E r \in {Selector_parse_lora_string(raw)} :
          parsed' = [by |-> "selector", raised |-> r.raised, name |-> r.name,
                     weight |-> r.weight]
    /\ UNCHANGED <<raw, cyclerVars, loraVars>>

CyclerIdle ==
    /\ cursor = EmptyDict /\ yaml_buf = EmptyDict /\ yaml_file = "nofile"
    /\ folders = EmptyDict /\ ret = NoCall /\ hist = EmptyDict
    /\ ncalls = 0 /\ nenv = 0

InitParse == ParseInit /\ CyclerIdle /\ LoraIdle

NextParse == ExtractorParse \/ SelectorParse

SpecParse == InitParse /\ [][NextParse]_vars

\* The rule the parser is meant to follow, stated without split: the name is
\* the text before the first colon of the bracket's content, the weight the
\* text between the first and the second colon (or the end).
RefParse(v) ==
    IF v.t # "str" \/ v.s = << >>
    THEN [name |-> << >>, weight |-> One]
    ELSE IF startswith(v.s, LoraPrefix) /\ endswith(v.s, LoraSuffix)
    THEN LET content == SubSeq(v.s, Len(LoraPrefix) + 1, Len(v.s) - Len(LoraSuffix))
             colons  == {k \in 1..Len(content) : content[k] = ":"}
             c1 == IF colons = {} THEN Len(content) + 1
                   ELSE CHOOSE k \in colons : \A j \in colons : k <= j
             later == {k \in colons : k > c1}
             c2 == IF later = {} THEN Len(content) + 1
                   ELSE CHOOSE k \in later : \A j \in later : k <= j
             second == SubSeq(content, c1 + 1, c2 - 1)
         IN  [name   |-> strip(SubSeq(content, 1, c1 - 1)),
              weight |-> IF colons # {} /\ float(second).err = ""
                         THEN float(second).val ELSE One]
    ELSE [name |-> strip(v.s), weight |-> One]

\* C5: for every input, _parse_lora_string of the extractor and of the
\* selector returns without raising, and returns what the reference rule
\* gives: ("", 1.0) for an empty or non-string value; for "<lora:" ... ">"
\* the trimmed first part and the numeric value of the trimmed second part
\* if there is one and it parses, else 1.0; the trimmed string and 1.0
\* for any other string.
C5_ParseIsReference ==
    parsed.by # "" =>
        /\ parsed.raised = ""
        /\ parsed.name = RefParse(raw).name
        /\ parsed.weight = RefParse(raw).weight

\* "<lora:f:.1>" was parsed to the name f and the weight 0.1
C5_Witness ==
    /\ parsed.by = "selector"
    /\ raw = Str(LoraPrefix \o <<"f", ":", ".", "1">> \o LoraSuffix)
    /\ parsed.name = <<"f">>
    /\ parsed.weight = Num(1, 1)

(***************************************************************************)
(* Resolution of a LoRA name against the host's list of LoRA files.        *)
(***************************************************************************)
MaxInv == 2        \* files in the list folder_paths.get_filename_list returns

\* the string "None" the selector and the loader use for "no LoRA"
NoneStr == <<"N", "o", "n", "e">>

Ext_safetensors == <<".", "s", "a", "f", "e", "t", "e", "n", "s", "o", "r", "s">>
Ext_ckpt        == <<".", "c", "k", "p", "t">>
Ext_pt          == <<".", "p", "t">>
Ext_pth         == <<".", "p", "t", "h">>
Ext_bin         == <<".", "b", "i", "n">>

\* the elements of the sequence s at the indices in S, in ascending order
RECURSIVE Pick(_, _)
Pick(s, S) ==
    IF S = {} THEN << >>
    ELSE <<s[Min(S)]>> \o Pick(s, S \ {Min(S)})

\* the exact match of the selector: the first file of the list that is the
\* name followed by a known extension, looked up with the extensions in the
\* fixed order
first_by_extension(lora_name, available_loras) ==
    LET exts == <<Ext_safetensors, Ext_ckpt, Ext_pt, Ext_pth>>
        hit  == {e \in 1..4 : \E k \in 1..Len(available_loras) :
                                  available_loras[k] = lora_name \o exts[e]}
    IN  IF hit = {} THEN {} ELSE {lora_name \o exts[Min(hit)]}

\* lines 103-111 of the selector: the first file of the list that is the name
\* followed by .safetensors, .ckpt, .pt or .pth
first_with_extension(lora_name, available_loras) ==
    LET hit == {k \in 1..Len(available_loras) :
                    \/ available_loras[k] = lora_name \o Ext_safetensors
                    \/ available_loras[k] = lora_name \o Ext_ckpt
                    \/ available_loras[k] = lora_name \o Ext_pt
                    \/ available_loras[k] = lora_name \o Ext_pth}
    IN  IF hit = {} THEN {} ELSE {available_loras[Min(hit)]}

\* lines 114-118 of the selector: the first file whose name without the
\* extension is the name
first_without_extension(lora_name, available_loras) ==
    LET hit == {k \in 1..Len(available_loras) :
                    splitext(available_loras[k])[1] = lora_name}
    IN  IF hit = {} THEN {} ELSE {available_loras[Min(hit)]}

\* the last file whose lower-cased name without the extension is the
\* lower-cased name
last_ignoring_case(lora_name, available_loras) ==
    LET hit == {k \in 1..Len(available_loras) :
                    lower(splitext(available_loras[k])[1]) = lower(lora_name)}
    IN  IF hit = {} THEN {} ELSE {available_loras[Max(hit)]}

\* lines 121-126 of the selector: the first file whose lower-cased name
\* without the extension is the lower-cased name
first_ignoring_case(lora_name, available_loras) ==
    LET hit == {k \in 1..Len(available_loras) :
                    lower(splitext(available_loras[k])[1]) = lower(lora_name)}
    IN  IF hit = {} THEN {} ELSE {available_loras[Min(hit)]}

\* YAMLLoRASelector._find_matching_lora_file
Selector_find_matching_lora_file(lora_name, available_loras) ==
    IF lora_name = << >> THEN NoneStr
    ELSE LET t1 == first_with_extension(lora_name, available_loras)
             t2 == first_without_extension(lora_name, available_loras)
             t3 == first_ignoring_case(lora_name, available_loras)
         IN  IF t1 # {} THEN CHOOSE f \in t1 : TRUE
             ELSE IF t2 # {} THEN CHOOSE f \in t2 : TRUE
             ELSE IF t3 # {} THEN CHOOSE f \in t3 : TRUE
             ELSE NoneStr

\* YAMLLoRASelector._get_available_loras: the list of the host, [] if the
\* host raises
Selector_get_available_loras(files, listing) ==
    IF listing = "raises" THEN << >> ELSE files

\* YAMLLoRALoader._get_available_loras: the names without their extensions
Loader_get_available_loras(files, listing) ==
    IF listing = "raises" THEN << >>
    ELSE [k \in 1..Len(files) |-> splitext(files[k])[1]]

\* YAMLLoRALoader._parse_lora_string: the name only
Loader_parse_lora_string(lora_string) ==
    IF ~truthy(lora_string) \/ ~isstr(lora_string) THEN << >>
    ELSE LET s == lora_string.s
         IN  IF startswith(s, LoraPrefix) /\ endswith(s, LoraSuffix)
             THEN LET parts == split(SubSeq(s, 7, Len(s) - 1), ":")
                  IN  IF Len(parts) >= 1 THEN strip(parts[1]) ELSE strip(s)
             ELSE strip(s)

\* a validation that hands an unknown name back
Loader_validate_keeps_name(lora_name, available_loras) ==
    IF lora_name = << >> THEN NoneStr
    ELSE IF \E k \in 1..Len(available_loras) : available_loras[k] = lora_name
    THEN lora_name
    ELSE LET hit == {k \in 1..Len(available_loras) :
                        lower(available_loras[k]) = lower(lora_name)}
         IN  IF hit # {} THEN available_loras[Min(hit)] ELSE lora_name

\* YAMLLoRALoader._validate_lora_name
Loader_validate_lora_name(lora_name, available_loras) ==
    IF lora_name = << >> THEN NoneStr
    ELSE IF \E k \in 1..Len(available_loras) : available_loras[k] = lora_name
    THEN lora_name
    ELSE LET hit == {k \in 1..Len(available_loras) :
                        lower(available_loras[k]) = lower(lora_name)}
         IN  IF hit # {} THEN available_loras[Min(hit)] ELSE NoneStr

\* {os.path.splitext(f)[0]: f for f in lora_files_with_ext}: a later file
\* with the same name without the extension replaces an earlier one
name_map_of(files) ==
    LET stem(k) == splitext(files[k])[1]
    IN  [s \in {stem(k) : k \in 1..Len(files)} |->
            files[Max({k \in 1..Len(files) : stem(k) = s})]]

\* list(name_map.keys()): the keys in the order they were first inserted
keys_of(files) ==
    LET stem(k) == splitext(files[k])[1]
    IN  Pick([k \in 1..Len(files) |-> stem(k)],
             {k \in 1..Len(files) : \A j \in 1..(k - 1) : stem(j) # stem(k)})

\* YAMLLoRAExtractor._get_available_loras
Extractor_get_available_loras(files, listing) ==
    IF listing = "raises"
    THEN [no_ext |-> << >>, name_map |-> EmptyDict, with_ext |-> << >>]
    ELSE [no_ext |-> keys_of(files), name_map |-> name_map_of(files),
          with_ext |-> files]

\* raw mode as a plain hand-back of the name
validate_raw_passthrough(lora_name_from_yaml, lora_name_map, available_loras_with_ext) ==
    Str(lora_name_from_yaml)

\* YAMLLoRAExtractor._validate_lora_name, raw_mode = True (lines 111-128)
validate_raw(lora_name_from_yaml, lora_name_map, available_loras_with_ext) ==
    LET name_no_ext_yaml == splitext(lora_name_from_yaml)[1]
    IN  IF \E k \in 1..Len(available_loras_with_ext) :
               available_loras_with_ext[k] = lora_name_from_yaml
        THEN Str(lora_name_from_yaml)
        ELSE IF name_no_ext_yaml \in DOMAIN lora_name_map
        THEN Str(lora_name_map[name_no_ext_yaml])
        ELSE Str(lora_name_from_yaml)

\* validated mode with the fall-back to lower case searched first
validate_checked_case_first(lora_name_from_yaml, available_loras_no_ext, lora_name_map) ==
    LET processed_name_no_ext == splitext(lora_name_from_yaml)[1]
        hit == {k \in 1..Len(available_loras_no_ext) :
                    lower(available_loras_no_ext[k]) = lower(processed_name_no_ext)}
    IN  IF hit # {}
        THEN Str(lora_name_map[available_loras_no_ext[Min(hit)]])
        ELSE IF processed_name_no_ext \in DOMAIN lora_name_map
        THEN Str(lora_name_map[processed_name_no_ext])
        ELSE Str(lora_name_from_yaml)

\* YAMLLoRAExtractor._validate_lora_name, raw_mode = False (lines 129-149)
validate_checked(lora_name_from_yaml, available_loras_no_ext, lora_name_map) ==
    LET processed_name_no_ext == splitext(lora_name_from_yaml)[1]
        hit == {k \in 1..Len(available_loras_no_ext) :
                    lower(available_loras_no_ext[k]) = lower(processed_name_no_ext)}
    IN  IF processed_name_no_ext \in DOMAIN lora_name_map
        THEN Str(lora_name_map[processed_name_no_ext])
        ELSE IF hit # {}
        THEN Str(lora_name_map[available_loras_no_ext[Min(hit)]])
        ELSE Str(lora_name_from_yaml)

\* YAMLLoRAExtractor._validate_lora_name
Extractor_validate_lora_name(lora_name_from_yaml, available_loras_no_ext, lora_name_map, available_loras_with_ext, raw_mode) ==
    IF lora_name_from_yaml = << >> THEN PyNone
    ELSE IF raw_mode
    THEN validate_raw(lora_name_from_yaml, lora_name_map, available_loras_with_ext)
    ELSE validate_checked(lora_name_from_yaml, available_loras_no_ext, lora_name_map)

(***************************************************************************)
(* The world of the LoRA nodes: the configuration file holds category x    *)
(* with lora1 and lora2 and category y without any LoRA; the host lists    *)
(* the LoRA files.                                                         *)
(***************************************************************************)
LoraNodes == {"extractor", "loader", "selector"}

N_fo == <<"f", "o">>
N_Fo == <<"F", "o">>
N_FO == <<"F", "O">>
N_zz == <<"z", "z">>

\* the names a configuration refers to
LoraNames == {N_fo, N_Fo, N_fo \o Ext_pt, N_zz, << >>}

\* the files the host may list
LoraFiles ==
    {N_fo \o Ext_safetensors, N_fo \o Ext_pt, N_fo \o Ext_bin,
     N_Fo \o Ext_pt, N_Fo \o Ext_safetensors, N_FO \o Ext_pt,
     N_fo \o Ext_pt \o Ext_ckpt}

\* folder_paths.get_filename_list("loras"): up to MaxInv distinct files
Inventories ==
    { s \in UNION { [1..n -> LoraFiles] : n \in 0..MaxInv } :
        \A i, j \in 1..Len(s) : i # j => s[i] # s[j] }

\* the value of lora1: a bare name, a reference with a weight, or a number
Lora1Values ==
    { Str(n) : n \in LoraNames }
        \cup { Str(LoraPrefix \o n \o <<":", ".", "5">> \o LoraSuffix) : n \in LoraNames }
        \cup { PyInt5 }

Lora2Value == Str(LoraPrefix \o <<" ">> \o N_Fo \o <<" ", ":", "2">> \o LoraSuffix)

\* the value of lora3 in the runs where category x has this key: empty, a
\* bare name, or a reference with a weight
Lora3Values ==
    { Str(<< >>), Str(N_zz), Str(LoraPrefix \o N_fo \o <<":", ".", "5">> \o LoraSuffix) }

\* cfg[category]: x has the keys lora1 and lora2, and the key lora3 in the
\* runs that give it a value; y has no LoRA key
category_config(category) ==
    IF category = "x"
    THEN [k \in {"prompt", "lora1", "lora2"} \cup (DOMAIN lora_in \cap {"lora3"}) |->
            IF k = "prompt" THEN Str(<<"p">>)
            ELSE IF k = "lora1" THEN lora_in.lora1
            ELSE IF k = "lora2" THEN Lora2Value
            ELSE lora_in.lora3]
    ELSE [k \in {"prompt"} |-> Str(<<"q">>)]

lora_keys == <<"lora1", "lora2", "lora3">>

\* _load_yaml of the three LoRA nodes: the cache is keyed by the path as given
load_yaml_lora(buf, path) ==
    IF ~exists_yaml(path)
    THEN [err |-> "FileNotFoundError_yaml", buf |-> buf, cfg |-> "nofile"]
    ELSE IF path \notin DOMAIN buf
         THEN [err |-> "", buf |-> DictSet(buf, path, yaml_file), cfg |-> yaml_file]
         ELSE [err |-> "", buf |-> buf, cfg |-> buf[path]]

\* what the host does when asked for the list and for a full path
Listings == {"lists", "raises"}
Lookups  == {"path", "none", "raises"}

\* a slot of the result that no LoRA reference was looked at for
NoField == [src |-> "", name |-> << >>, found |-> PyNone, weight |-> One]

\* what a call that ended before the references were read gives
NoFields == <<NoField, NoField, NoField>>

\* the errors of the lines before the references are read
entry_error(ld, category) ==
    IF ld.err # "" THEN ld.err
    ELSE IF IsNone(ld.cfg) THEN "TypeError_none"
    ELSE IF category \notin Keys(ld.cfg) THEN "ValueError_category"
    ELSE ""

\* the item the selector gives when it has nothing else to give
default_wanvidlora_item == [path |-> NoneStr, strength |-> One, name |-> NoneStr]

\* lines 198-207 of the selector: folder_paths.get_full_path is asked unless
\* nothing was found; None and an exception both become "None"
actual_path_of(lora_file_path_found, lookup) ==
    IF lora_file_path_found # NoneStr /\ lookup = "path"
    THEN <<"/">> \o lora_file_path_found
    ELSE NoneStr

\* lines 187-191 of the selector: the parsed reference p is looked up
Selector_found(p, available_loras) ==
    [src |-> "yaml", name |-> p.name, weight |-> p.weight,
     found |-> Str(Selector_find_matching_lora_file(p.name, available_loras))]

\* lines 182-191 of the selector, for one of lora1, lora2, lora3
Selector_field(lora_raw, available_loras) ==
    IF ~truthy(lora_raw) THEN [NoField EXCEPT !.src = "skipped"]
    ELSE Selector_found(Selector_parse_lora_string(lora_raw), available_loras)

\* an item that carries the parsed name as it is
lora_info_parsed_name(field, lookup) ==
    [path     |-> actual_path_of(field.found.s, lookup),
     strength |-> field.weight,
     name     |-> field.name]

\* lines 209-217 of the selector: the item appended for a field
lora_info(field, lookup) ==
    [path     |-> actual_path_of(field.found.s, lookup),
     strength |-> field.weight,
     name     |-> IF field.name # << >> THEN field.name ELSE NoneStr]

\* lines 181-224 of the selector: an item for every field that is not
\* skipped, the default item if there is none
Selector_output(fields, lookup) ==
    IF \A k \in 1..3 : fields[k].src # "yaml"
    THEN <<default_wanvidlora_item>>
    ELSE Pick([k \in 1..3 |-> lora_info(fields[k], lookup)],
              {k \in 1..3 : fields[k].src = "yaml"})

\* what the selector returns for the fields it went through
Selector_result(fields, lookup) ==
    [outcome |-> "ok", prompt |-> << >>, fields |-> fields,
     list |-> Selector_output(fields, lookup)]

\* a selector that lets the error reach the host, as the other nodes do
error_reraised(err) ==
    [outcome |-> err, prompt |-> << >>, fields |-> NoFields, list |-> << >>]

\* error_return_value = ([default_wanvidlora_item], yaml_path), which the
\* selector returns where it catches an error
error_return_value(err) ==
    [outcome |-> "ok", prompt |-> << >>, fields |-> NoFields,
     list |-> <<default_wanvidlora_item>>]

\* YAMLLoRASelector.execute after _load_yaml: every error gives the default
Selector_execute_body(ld, category, listing, lookup) ==
    IF entry_error(ld, category) # ""
    THEN error_return_value(entry_error(ld, category))
    ELSE Selector_result(
            [k \in 1..3 |->
                Selector_field(DictGet(category_config(category), lora_keys[k], Str(<< >>)),
                               Selector_get_available_loras(lora_in.inventory, listing))],
            lookup)

\* lines 149-168 of the loader, for one of lora1, lora2, lora3
Loader_field(lora_raw, override, available_loras) ==
    IF override # NoneStr
    THEN [src |-> "override", name |-> << >>, found |-> Str(override), weight |-> One]
    ELSE [src |-> "yaml", name |-> Loader_parse_lora_string(lora_raw), weight |-> One,
          found |-> Str(Loader_validate_lora_name(Loader_parse_lora_string(lora_raw),
                                                  available_loras))]

\* YAMLLoRALoader.execute after _load_yaml: every error is raised again
Loader_execute_body(ld, category, overrides, listing) ==
    IF entry_error(ld, category) # ""
    THEN [outcome |-> entry_error(ld, category), prompt |-> << >>,
          fields |-> NoFields, list |-> << >>]
    ELSE [outcome |-> "ok", prompt |-> category_config(category)["prompt"].s,
          list |-> << >>,
          fields |-> [k \in 1..3 |->
              Loader_field(DictGet(category_config(category), lora_keys[k], Str(<< >>)),
                           overrides[k],
                           Loader_get_available_loras(lora_in.inventory, listing))]]

\* lines 186-188 of the extractor: the parsed reference p is validated
Extractor_found(p, av, raw_lora_names) ==
    [src |-> "yaml", name |-> p.name, weight |-> p.weight,
     found |-> Extractor_validate_lora_name(p.name, av.no_ext, av.name_map,
                                            av.with_ext, raw_lora_names)]

\* lines 177-188 of the extractor, for one of lora1, lora2, lora3
Extractor_field(lora_raw, av, raw_lora_names) ==
    Extractor_found(Extractor_parse_lora_string(lora_raw), av, raw_lora_names)

\* YAMLLoRAExtractor.execute after _load_yaml: every error is raised again
Extractor_execute_body(ld, category, raw_lora_names, listing) ==
    IF entry_error(ld, category) # ""
    THEN [outcome |-> entry_error(ld, category), prompt |-> << >>,
          fields |-> NoFields, list |-> << >>]
    ELSE [outcome |-> "ok", prompt |-> category_config(category)["prompt"].s,
          list |-> << >>,
          fields |-> [k \in 1..3 |->
              Extractor_field(DictGet(category_config(category), lora_keys[k], Str(<< >>)),
                              Extractor_get_available_loras(lora_in.inventory, listing),
                              raw_lora_names)]]

\* the node keeps what _load_yaml cached and the call's result is observed
finish_lora(node, yaml_path, category, raw_lora_names, listing, lookup, ld, res) ==
    /\ yaml_buf' = [yaml_buf EXCEPT ![node] = ld.buf]
    /\ lora_out' = [node |-> node, yaml_path |-> yaml_path, category |-> category,
                    raw_mode |-> raw_lora_names, listing |-> listing,
                    lookup |-> lookup, file |-> yaml_file, cfg |-> ld.cfg,
                    outcome |-> res.outcome,
                    prompt |-> res.prompt, fields |-> res.fields,
                    list |-> res.list]
    /\ ncalls' = ncalls + 1
    /\ UNCHANGED <<cursor, yaml_file, folders, ret, hist, nenv, parseVars, lora_in>>

NoLoraCall ==
    [node |-> "", yaml_path |-> "", category |-> "", raw_mode |-> FALSE,
     listing |-> "", lookup |-> "", file |-> "", cfg |-> "", outcome |-> "",
     prompt |-> << >>, fields |-> NoFields, list |-> << >>]

\* YAMLLoRASelector.execute(category, yaml_path)
YAMLLoRASelector_execute(category, yaml_path, listing, lookup) ==
    /\ ncalls < MaxCalls
    /\ \E ld \in {load_yaml_lora(yaml_buf["selector"], yaml_path)} :
       \E res \in {Selector_execute_body(ld, category, listing, lookup)} :
          finish_lora("selector", yaml_path, category, FALSE, listing, lookup, ld, res)

\* YAMLLoRALoader.execute(yaml_path, category, lora1_override, lora2_override, lora3_override)
YAMLLoRALoader_execute(yaml_path, category, overrides, listing) ==
    /\ ncalls < MaxCalls
    /\ \E ld \in {load_yaml_lora(yaml_buf["loader"], yaml_path)} :
       \E res \in {Loader_execute_body(ld, category, overrides, listing)} :
          finish_lora("loader", yaml_path, category, FALSE, listing, "", ld, res)

\* YAMLLoRAExtractor.execute(yaml_path, category, raw_lora_names)
YAMLLoRAExtractor_execute(yaml_path, category, raw_lora_names, listing) ==
    /\ ncalls < MaxCalls
    /\ \E ld \in {load_yaml_lora(yaml_buf["extractor"], yaml_path)} :
       \E res \in {Extractor_execute_body(ld, category, raw_lora_names, listing)} :
          finish_lora("extractor", yaml_path, category, raw_lora_names, listing, "", ld, res)

\* the override inputs of the loader: "None" leaves the field to the file
Overrides == {NoneStr, N_zz}

LoraInit ==
    /\ lora_in \in [lora1 : Lora1Values, inventory : Inventories]
    /\ lora_out = NoLoraCall
    /\ yaml_file \in YamlContents
    /\ yaml_buf = [n \in LoraNodes |-> EmptyDict]

\* the resolution is explored over one execute call per behaviour: the
\* call budget is spent but for the last call
LoraCyclerIdle ==
    /\ cursor = EmptyDict /\ folders = EmptyDict /\ ret = NoCall
    /\ hist = EmptyDict /\ ncalls = MaxCalls - 1 /\ nenv = 0

InitLora == LoraInit /\ LoraCyclerIdle /\ ParseIdle

NextLora ==
    \/ \E c \in ReqCategories, listing \in Listings, lookup \in Lookups :
          YAMLLoRASelector_execute(c, DefaultYaml, listing, lookup)
    \/ \E c \in ReqCategories, listing \in Listings, o1 \in Overrides :
          YAMLLoRALoader_execute(DefaultYaml, c, <<o1, NoneStr, NoneStr>>, listing)
    \/ \E c \in ReqCategories, listing \in Listings, raw_lora_names \in BOOLEAN :
          YAMLLoRAExtractor_execute(DefaultYaml, c, raw_lora_names, listing)

SpecLora == InitLora /\ [][NextLora]_vars

\* the selector alone, over a category x that has all three LoRA keys
InitSelector ==
    /\ lora_in \in [lora1 : Lora1Values, lora3 : Lora3Values, inventory : Inventories]
    /\ lora_out = NoLoraCall
    /\ yaml_file \in YamlContents
    /\ yaml_buf = [n \in LoraNodes |-> EmptyDict]
    /\ LoraCyclerIdle
    /\ ParseIdle

NextSelector ==
    \E c \in ReqCategories, listing \in Listings, lookup \in Lookups :
        YAMLLoRASelector_execute(c, DefaultYaml, listing, lookup)

SpecSelector == InitSelector /\ [][NextSelector]_vars

(***************************************************************************)
(* The five nodes side by side, called through both spellings of the       *)
(* configuration path while the file is rewritten under them.              *)
(***************************************************************************)
Nodes == Instances \cup LoraNodes

\* no category is watched
NoWatch == [inst |-> "", category |-> "", status |-> "unseen", list |-> << >>,
            sels |-> << >>]

\* every node as constructed (__init__: self._yaml_buf = {}), one LoRA file
\* listed by the host
InitNodes ==
    /\ cursor   = [i \in Instances |-> EmptyDict]
    /\ yaml_buf = [n \in Nodes |-> EmptyDict]
    /\ yaml_file = "xy"
    /\ folders = InitFolders
    /\ ret = NoCall
    /\ hist = NoWatch
    /\ ncalls = 0
    /\ nenv = 0
    /\ lora_in = [lora1 |-> Str(N_fo), inventory |-> <<N_fo \o Ext_pt>>]
    /\ lora_out = NoLoraCall
    /\ ParseIdle

NodeCategories == {"x", "z"}

NextNodes ==
    \/ \E p \in YamlPaths, c \in NodeCategories :
          YAMLImageCycler_execute(p, "dataB", c, "ok", "absent")
    \/ \E p \in YamlPaths, c \in NodeCategories :
          YAMLImageCyclerSimple_execute(p, "dataB", c, "ok", "absent")
    \/ \E p \in YamlPaths, c \in NodeCategories :
          YAMLLoRASelector_execute(c, p, "lists", "path")
    \/ \E p \in YamlPaths, c \in NodeCategories :
          YAMLLoRALoader_execute(p, c, <<NoneStr, NoneStr, NoneStr>>, "lists")
    \/ \E p \in YamlPaths, c \in NodeCategories :
          YAMLLoRAExtractor_execute(p, c, FALSE, "lists")
    \/ \E content \in YamlContents : WriteYaml(content)

SpecNodes == InitNodes /\ [][NextNodes]_vars

\* the folders a file comes into in the run below: dataB/x, which has no
\* mask_folder entry, and dataB/y, whose mask_folder m is not a directory
SearchDirs == {<<"dataB", "x">>, <<"dataB", "y">>}

\* both cyclers as constructed over the initial tree, no category watched
InitSearch ==
    /\ cursor   = [i \in Instances |-> EmptyDict]
    /\ yaml_buf = [i \in Instances |-> EmptyDict]
    /\ yaml_file = "xy"
    /\ folders = InitFolders
    /\ ret = NoCall
    /\ hist = NoWatch
    /\ ncalls = 0
    /\ nenv = 0
    /\ ParseIdle
    /\ LoraIdle

\* the cyclers over every content of the folder searched first, while a
\* file comes into a category folder
NextSearch ==
    \/ \E d \in ParentDirs, c \in Categories, m \in MaskCases :
          YAMLImageCycler_execute(DefaultYaml, d, c, "ok", m)
    \/ \E d \in ParentDirs, c \in Categories, m \in MaskCases :
          YAMLImageCyclerSimple_execute(DefaultYaml, d, c, "ok", m)
    \/ \E d \in SearchDirs, f \in SearchFiles : AddFile(d, f)

SpecSearch == InitSearch /\ [][NextSearch]_vars

(***************************************************************************)
(* Properties of the resolution.                                           *)
(***************************************************************************)
\* the list of files the node of the last call worked with
Seen == IF lora_out.listing = "raises" THEN << >> ELSE lora_in.inventory

\* the last call read field k from the configuration and parsed a name
Resolved(k) ==
    /\ lora_out.outcome = "ok"
    /\ lora_out.fields[k].src = "yaml"
    /\ lora_out.fields[k].name # << >>

\* the last call was the selector, or the extractor in validated mode
WithExtension ==
    \/ lora_out.node = "selector"
    \/ lora_out.node = "extractor" /\ ~lora_out.raw_mode

KnownExts == <<Ext_safetensors, Ext_ckpt, Ext_pt, Ext_pth>>

\* positions of the files that are the name followed by a known extension
WithKnownExt(name, inv) ==
    {i \in 1..Len(inv) : \E e \in 1..4 : inv[i] = name \o KnownExts[e]}

\* positions of the files whose name without the extension is s
StemIs(s, inv) == {i \in 1..Len(inv) : splitext(inv[i])[1] = s}

\* the same, ignoring case
StemIsIgnoringCase(s, inv) ==
    {i \in 1..Len(inv) : lower(splitext(inv[i])[1]) = lower(s)}

\* the file name + ext of the list whose ext comes first in the fixed order
ByExtensionOrder(name, inv) ==
    name \o KnownExts[Min({e \in 1..4 : \E i \in 1..Len(inv) : inv[i] = name \o KnownExts[e]})]

C7_ThreeTiers ==
    \A k \in 1..3 :
        LET f  == lora_out.fields[k]
            t1 == WithKnownExt(f.name, Seen)
            t2 == StemIs(f.name, Seen)
            t3 == StemIsIgnoringCase(f.name, Seen)
            t  == IF t1 # {} THEN t1 ELSE IF t2 # {} THEN t2 ELSE t3
        IN  (Resolved(k) /\ WithExtension /\ t # {})
                => \E i \in t : f.found = Str(Seen[i])

\* C7 amended: the selector tries the three tiers in that order; the
\* extractor in validated mode has two tiers, both on the name without its
\* extension: a file whose name without the extension is equal to it, then
\* one equal to it ignoring case. The file returned belongs to the first
\* tier that has a match, and is a file of the list.
C7_TiersByNode ==
    \A k \in 1..3 :
        LET f  == lora_out.fields[k]
            s  == splitext(f.name)[1]
            t1 == WithKnownExt(f.name, Seen)
            t2 == StemIs(f.name, Seen)
            t3 == StemIsIgnoringCase(f.name, Seen)
            t  == IF t1 # {} THEN t1 ELSE IF t2 # {} THEN t2 ELSE t3
            u  == IF StemIs(s, Seen) # {} THEN StemIs(s, Seen)
                  ELSE StemIsIgnoringCase(s, Seen)
        IN  /\ (Resolved(k) /\ lora_out.node = "selector" /\ t # {})
                => \E i \in t : f.found = Str(Seen[i])
            /\ (Resolved(k) /\ lora_out.node = "extractor" /\ ~lora_out.raw_mode
                    /\ u # {})
                => \E i \in u : f.found = Str(Seen[i])

\* the selector was asked for fo with Fo.pt listed before fo.bin and found
\* fo.bin: the exact name wins over an earlier file that differs in case
C7_Witness ==
    /\ lora_out.node = "selector" /\ lora_out.outcome = "ok"
    /\ Seen = <<N_Fo \o Ext_pt, N_fo \o Ext_bin>>
    /\ lora_out.fields[1].name = N_fo
    /\ lora_out.fields[1].found = Str(N_fo \o Ext_bin)

\* C8 as stated: with raw_lora_names = true the extractor returns every
\* parsed name unchanged, whatever the list holds.
C8_RawUnchanged ==
    \A k \in 1..3 :
        LET f == lora_out.fields[k]
        IN  (lora_out.node = "extractor" /\ lora_out.raw_mode
                /\ lora_out.outcome = "ok" /\ f.src = "yaml")
                => f.found = Str(f.name)

\* C8 amended: with raw_lora_names = true the extractor returns None for an
\* empty name; the name unchanged if it is a file of the list, or if no file
\* of the list has the name without its extension as its name without the
\* extension; and otherwise the last such file of the list.
C8_RawLooksUp ==
    \A k \in 1..3 :
        LET f == lora_out.fields[k]
            s == splitext(f.name)[1]
        IN  (lora_out.node = "extractor" /\ lora_out.raw_mode
                /\ lora_out.outcome = "ok" /\ f.src = "yaml")
                => f.found =
                     IF f.name = << >> THEN PyNone
                     ELSE IF \E i \in 1..Len(Seen) : Seen[i] = f.name
                          THEN Str(f.name)
                     ELSE IF StemIs(s, Seen) = {} THEN Str(f.name)
                     ELSE Str(Seen[Max(StemIs(s, Seen))])

\* the extractor in raw mode was asked for fo with fo.pt and fo.safetensors
\* listed and returned fo.safetensors
C8_Witness ==
    /\ lora_out.node = "extractor" /\ lora_out.raw_mode
    /\ lora_out.outcome = "ok"
    /\ Seen = <<N_fo \o Ext_pt, N_fo \o Ext_safetensors>>
    /\ lora_out.fields[1].name = N_fo
    /\ lora_out.fields[1].found = Str(N_fo \o Ext_safetensors)

\* the last call resolved field k, no file of the list matches s exactly
\* (as s followed by a known extension, or with s as its name without the
\* extension), and several have s as their name without the extension
\* ignoring case
SeveralIgnoringCase(k, s) ==
    /\ Resolved(k)
    /\ WithKnownExt(s, Seen) = {}
    /\ StemIs(s, Seen) = {}
    /\ Cardinality(StemIsIgnoringCase(s, Seen)) >= 2

\* C9 as stated: when several files match the name ignoring case and none
\* matches exactly, the selector, the loader and the extractor return the
\* first of them in the order of the list (the loader, whose list holds the
\* names without extension, that name), also when they differ only in the
\* extension.
C9_FirstIgnoringCase ==
    \A k \in 1..3 :
        LET f     == lora_out.fields[k]
            first == Seen[Min(StemIsIgnoringCase(f.name, Seen))]
        IN  SeveralIgnoringCase(k, f.name) =>
                /\ WithExtension => f.found = Str(first)
                /\ lora_out.node = "loader" => f.found = Str(splitext(first)[1])

\* C9 amended: when several files match the name ignoring case and none
\* matches exactly, the selector returns the first of them in the order of
\* the list and the loader returns the name without the extension of the
\* first of them; when several files match the name without its extension
\* ignoring case and none matches it exactly, the extractor in validated
\* mode returns the last file of the list that has the same name without
\* the extension as the first of them.
C9_FirstStemIgnoringCase ==
    \A k \in 1..3 :
        LET f     == lora_out.fields[k]
            s     == splitext(f.name)[1]
            first == Seen[Min(StemIsIgnoringCase(f.name, Seen))]
            key   == splitext(Seen[Min(StemIsIgnoringCase(s, Seen))])[1]
        IN  /\ SeveralIgnoringCase(k, f.name) =>
                /\ lora_out.node = "selector" => f.found = Str(first)
                /\ lora_out.node = "loader" => f.found = Str(splitext(first)[1])
            /\ (SeveralIgnoringCase(k, s) /\ lora_out.node = "extractor"
                    /\ ~lora_out.raw_mode)
                 => f.found = Str(Seen[Max(StemIs(key, Seen))])

\* the extractor in validated mode was asked for fo with Fo.pt listed before
\* Fo.safetensors and returned Fo.safetensors
C9_Witness ==
    /\ lora_out.node = "extractor" /\ ~lora_out.raw_mode
    /\ lora_out.outcome = "ok"
    /\ Seen = <<N_Fo \o Ext_pt, N_Fo \o Ext_safetensors>>
    /\ lora_out.fields[1].name = N_fo
    /\ lora_out.fields[1].found = Str(N_Fo \o Ext_safetensors)

\* no file of the list is the name, or has the name or the name without its
\* extension as its name without the extension, ignoring case
NoMatch(name, inv) ==
    /\ \A i \in 1..Len(inv) : inv[i] # name
    /\ StemIsIgnoringCase(name, inv) = {}
    /\ StemIsIgnoringCase(splitext(name)[1], inv) = {}

\* C10: a name that cannot be resolved never fails the request. A call for a
\* category of a readable configuration returns normally; a non-empty name
\* without a match in the list (also an empty list, and a list the host
\* failed to give) comes back as "None" from the selector and the loader
\* and unchanged from the extractor; and the selector gives the path "None"
\* for a name without a match and whenever the host's path lookup fails.
C10_NoMatchDegrades ==
    /\ (lora_out.node # "" /\ yaml_file = "xy" /\ lora_out.category \in Keys(yaml_file))
            => lora_out.outcome = "ok"
    /\ \A k \in 1..3 :
        LET f == lora_out.fields[k]
        IN  (Resolved(k) /\ NoMatch(f.name, Seen)) =>
                /\ lora_out.node \in {"selector", "loader"} => f.found = Str(NoneStr)
                /\ lora_out.node = "extractor" => f.found = Str(f.name)
    /\ lora_out.node = "selector" =>
            /\ lora_out.outcome = "ok"
            /\ \A n \in 1..Len(lora_out.list) :
                  (lora_out.lookup # "path"
                      \/ \E k \in 1..3 : /\ Resolved(k)
                                         /\ NoMatch(lora_out.fields[k].name, Seen)
                                         /\ lora_out.list[n].name = lora_out.fields[k].name)
                    => lora_out.list[n].path = NoneStr

\* the loader was asked for fo while the host failed to list its files,
\* fo.pt among them, and returned "None" normally
C10_Witness ==
    /\ lora_out.node = "loader" /\ lora_out.outcome = "ok"
    /\ lora_out.listing = "raises"
    /\ \E i \in 1..Len(lora_in.inventory) : lora_in.inventory[i] = N_fo \o Ext_pt
    /\ lora_out.fields[1].name = N_fo
    /\ lora_out.fields[1].found = Str(NoneStr)

(***************************************************************************)
(* Properties of the selector's list.                                      *)
(***************************************************************************)
\* the last call was the selector's and it reached the LoRA keys of its
\* category: the file was there and the document has the category
SelectorRead ==
    /\ lora_out.node = "selector"
    /\ lora_out.cfg = "xy"
    /\ lora_out.category \in Keys(lora_out.cfg)

\* the value of lora1, lora2, lora3 in the category of the last call
FieldValue(k) ==
    DictGet(category_config(lora_out.category), lora_keys[k], Str(<< >>))

\* the keys among lora1, lora2, lora3 that are set to something
SetFields == { k \in 1..3 : FieldValue(k) # Str(<< >>) }

\* the number of the key the n-th item of the list stands for
FieldOfItem(n) == Pick(<<1, 2, 3>>, SetFields)[n]

\* the name has no file in the list the call worked with
Unresolved(name) == name = << >> \/ NoMatch(name, Seen)

\* C22 as stated: the selector always returns a list of one to three
\* items; a call that read its category gives one item for each of lora1,
\* lora2, lora3 that is set, in this order, each with the parsed name as
\* its name, the parsed weight as its strength and the path "None" when
\* the name is unresolved; with no key set, and on every error, the list
\* is the single default item.
C22_ItemPerField ==
    lora_out.node = "selector" =>
        /\ lora_out.outcome = "ok"
        /\ Len(lora_out.list) \in 1..3
        /\ IF SelectorRead /\ SetFields # {}
           THEN /\ Len(lora_out.list) = Cardinality(SetFields)
                /\ \A n \in 1..Len(lora_out.list) :
                      LET p == Selector_parse_lora_string(FieldValue(FieldOfItem(n)))
                      IN  /\ lora_out.list[n].name = p.name
                          /\ lora_out.list[n].strength = p.weight
                          /\ Unresolved(p.name) => lora_out.list[n].path = NoneStr
           ELSE lora_out.list = <<[path |-> NoneStr, name |-> NoneStr, strength |-> One]>>

\* C22: the same, but an item whose parsed name is empty has the name
\* "None" instead of the empty name.
C22_ItemPerFieldNamed ==
    lora_out.node = "selector" =>
        /\ lora_out.outcome = "ok"
        /\ Len(lora_out.list) \in 1..3
        /\ IF SelectorRead /\ SetFields # {}
           THEN /\ Len(lora_out.list) = Cardinality(SetFields)
                /\ \A n \in 1..Len(lora_out.list) :
                      LET p == Selector_parse_lora_string(FieldValue(FieldOfItem(n)))
                      IN  /\ lora_out.list[n].name =
                                IF p.name = << >> THEN NoneStr ELSE p.name
                          /\ lora_out.list[n].strength = p.weight
                          /\ Unresolved(p.name) => lora_out.list[n].path = NoneStr
           ELSE lora_out.list = <<[path |-> NoneStr, name |-> NoneStr, strength |-> One]>>

\* three items came back: "None" with the weight .5 for a reference without
\* a name, Fo, and zz that no file matches
C22_Witness ==
    /\ lora_out.node = "selector" /\ lora_out.outcome = "ok"
    /\ lora_in.lora1 = Str(LoraPrefix \o <<":", ".", "5">> \o LoraSuffix)
    /\ Len(lora_out.list) = 3
    /\ lora_out.list[1].name = NoneStr /\ lora_out.list[1].strength # One
    /\ lora_out.list[2].name = N_Fo
    /\ lora_out.list[3].name = N_zz /\ lora_out.list[3].path = NoneStr

(***************************************************************************)
(* Properties of the configuration cache and of the errors of a request.   *)
(***************************************************************************)
\* C11: on every node, two spellings of the configuration path that resolve
\* to the same absolute path hit the same cache entry, so the file is read
\* once and a node's cache never holds two entries for one file.
C11_OneEntryPerFile ==
    \A n \in DOMAIN yaml_buf : \A p, q \in DOMAIN yaml_buf[n] :
        abspath(p) = abspath(q) => p = q

\* the key under which node n caches the document of a path
CacheKey(n, path) == IF n = "simple" THEN abspath(path) ELSE path

\* the last call of a cycler, or of a LoRA node, loaded the configuration
Loaded(r) == r.cfg \notin {"", "nofile"}

\* C12: a cache entry is never evicted or replaced, and the document a
\* successful load works with is the entry cached for its path: once a path
\* is loaded, every later load of it on that node gives the document cached
\* first, whatever the file holds by then.
C12_CacheKept ==
    [][ /\ \A n \in DOMAIN yaml_buf : \A k \in DOMAIN yaml_buf[n] :
              k \in DOMAIN yaml_buf'[n] /\ yaml_buf'[n][k] = yaml_buf[n][k]
        /\ Loaded(ret') =>
              /\ CacheKey(ret'.inst, ret'.yaml_path) \in DOMAIN yaml_buf'[ret'.inst]
              /\ yaml_buf'[ret'.inst][CacheKey(ret'.inst, ret'.yaml_path)] = ret'.cfg
        /\ Loaded(lora_out') =>
              /\ lora_out'.yaml_path \in DOMAIN yaml_buf'[lora_out'.node]
              /\ yaml_buf'[lora_out'.node][lora_out'.yaml_path] = lora_out'.cfg
      ]_vars

\* the extractor worked with the mapping it had cached while the file on
\* disk was an empty document
C12_Witness ==
    /\ lora_out.node = "extractor" /\ lora_out.outcome = "ok"
    /\ lora_out.cfg = "xy" /\ lora_out.file = "none"
    /\ yaml_file = "none"

\* the last call found no configuration file
Missing(r) == r.cfg = "nofile"

\* the last call loaded a document that does not have the category
Absent(r) == Loaded(r) /\ r.category \notin Keys(r.cfg)

\* the exceptions execute raises for such a request
EntryErrors == {"FileNotFoundError_yaml", "ValueError_category", "TypeError_none"}

\* C13 as stated: on each of the five nodes a request with the
\* configuration file missing or the category absent ends with an error
\* raised to the host.
C13_AllFatal ==
    /\ (Missing(ret) \/ Absent(ret)) => ret.outcome \in EntryErrors
    /\ (Missing(lora_out) \/ Absent(lora_out)) => lora_out.outcome \in EntryErrors

\* C13: on the two cyclers, the extractor and the loader a request with the
\* configuration file missing or the category absent ends with an error
\* raised to the host; the selector catches the error and returns its
\* default output, the single item with path "None".
C13_FatalButSelector ==
    /\ (Missing(ret) \/ Absent(ret)) => ret.outcome \in EntryErrors
    /\ (Missing(lora_out) \/ Absent(lora_out)) =>
          IF lora_out.node = "selector"
          THEN /\ lora_out.outcome = "ok"
               /\ lora_out.list = <<default_wanvidlora_item>>
          ELSE lora_out.outcome \in EntryErrors

\* the simple cycler failed on a missing file it had cached before, and the
\* selector returned its default for a category the mapping does not have
C13_Witness ==
    /\ ret.inst = "simple" /\ Missing(ret) /\ DOMAIN yaml_buf["simple"] # {}
    /\ ret.outcome = "FileNotFoundError_yaml"
    /\ lora_out.node = "selector" /\ lora_out.cfg = "xy" /\ lora_out.category = "z"
    /\ lora_out.outcome = "ok"

\* C14: on the cyclers, the extractor and the loader, a request for a
\* category that is not a key of the loaded document, the empty document
\* included, fails with the error that lists the available categories
\* (ValueError) and with no other error.
C14_AbsentIsInvalidCategory ==
    /\ Absent(ret) => ret.outcome = "ValueError_category"
    /\ (Absent(lora_out) /\ lora_out.node # "selector") =>
          lora_out.outcome = "ValueError_category"

(***************************************************************************)
(* Properties of the mask output.                                          *)
(***************************************************************************)
\* the image the last call selected
Selected == ret.images[ret.idx + 1]

\* neither the mask folder nor the image's folder holds a file with the
\* image's name and a mask extension, the image's own file aside
NoMaskFileExists ==
    /\ ret.mask_in = "absent"
    /\ \A k \in 1..Len(mask_extensions) :
          LET f == splitext(Selected)[1] \o mask_extensions[k]
          IN  f \in folders[<<ret.parent_dir, ret.category>>] => f = Selected

\* C15: a call that loaded its image while no mask file exists for it
\* returns normally, and its mask output is the all-zero mask with the
\* height and the width of the loaded image.
C15_NoMaskGivesZeros ==
    NoMaskFileExists =>
        /\ ret.outcome = "ok"
        /\ ret.mask = [kind |-> "zeros",
                       shape |-> <<1, ImageSize(Selected)[1], ImageSize(Selected)[2]>>]

\* C16 as stated: a call that found a mask file whose bytes do not decode
\* ends with the decoding error raised to the host, and no call returns
\* normally with None as its mask output.
C16_MaskDecodeFatal ==
    /\ ret.mask_in = "undecodable" => ret.outcome = "RuntimeError_decode"
    /\ ret.outcome = "ok" => ret.mask.kind # "None"

\* C16: a call that found a mask file whose bytes do not decode does not
\* fail: it returns normally and its mask output is None.
C16_MaskDecodeGivesNone ==
    ret.mask_in = "undecodable" =>
        /\ ret.outcome = "ok"
        /\ ret.mask.kind = "None"

\* the simple cycler returned None as the mask of its second image
C16_Witness ==
    /\ ret.inst = "simple" /\ ret.idx = 1
    /\ ret.mask_in = "undecodable"
    /\ ret.outcome = "ok"
    /\ ret.mask.kind = "None"

\* the mask_folder entry of the last call's category names a directory
UsableMaskFolder ==
    LET mask_folder == mask_folder_config(ret.cfg, ret.category)
    IN  mask_folder # "" /\ isdir_mask_folder(ret.parent_dir, mask_folder)

\* the mask extensions under which the image's folder held a file with the
\* selected image's name when the last call listed it
OwnFolderMatches ==
    { k \in 1..Len(mask_extensions) :
         \E j \in 1..Len(ret.images) :
            ret.images[j] = splitext(Selected)[1] \o mask_extensions[k] }

ImagesAmong(names) ==
    { f \in names : \E e \in supported_extensions : endswith(lower(f), e) }

\* C17: the asset list a call works with is the sorted list of the image
\* names its category folder holds when the call is made, so a file added
\* or removed before the call is seen by it; a call that finds no image
\* among the names fails.
C17_ListIsFresh ==
    [][ Called =>
          LET names == folders[<<ret'.parent_dir, ret'.category>>]
          IN  /\ ret'.idx # -1 =>
                    /\ { ret'.images[k] : k \in 1..Len(ret'.images) } = ImagesAmong(names)
                    /\ \A a, b \in 1..Len(ret'.images) :
                          a < b => StrLess(ret'.images[a], ret'.images[b])
              /\ ret'.outcome = "RuntimeError_noimages" => ImagesAmong(names) = {}
      ]_vars

\* a call after a.png was added to the folder lists three images
C17_Witness ==
    /\ ret.parent_dir = "dataB"
    /\ ret.images = <<F_B_PNG, F_a_png, F_b_jpg>>
    /\ ret.outcome = "ok"

\* C18: every stored cursor value is a non-negative integer, and right
\* after a call for category C that reached the cursor step with a list of
\* N assets the value stored for C is at least 0 and below N.
C18_CursorInRange ==
    /\ \A i \in DOMAIN cursor : \A c \in DOMAIN cursor[i] : cursor[i][c] \in Nat
    /\ ret.idx # -1 =>
          /\ ret.category \in DOMAIN cursor[ret.inst]
          /\ 0 <= cursor[ret.inst][ret.category]
          /\ cursor[ret.inst][ret.category] < ret.n

\* a call that selected the last of three assets stored 0
C18_Witness ==
    /\ ret.idx = 2 /\ ret.n = 3
    /\ cursor[ret.inst][ret.category] = 0

\* the errors of loading the selected image
ImageLoadErrors == {"FileNotFoundError_image", "RuntimeError_decode"}

\* C19: a call that fails while loading the image it selected has already
\* stored the advanced cursor, and the next call of the same instance for
\* the same category and list selects the asset after the one that failed.
C19_AdvancedBeforeLoad ==
    [][ Called =>
          /\ ret'.outcome \in ImageLoadErrors =>
                /\ ret'.idx # -1
                /\ ret'.category \in DOMAIN cursor'[ret'.inst]
                /\ cursor'[ret'.inst][ret'.category] = (ret'.idx + 1) % ret'.n
          /\ ( /\ ret.outcome \in ImageLoadErrors
               /\ ret'.inst = ret.inst /\ ret'.category = ret.category
               /\ ret'.images = ret.images ) =>
                ret'.idx = (ret.idx + 1) % ret.n
      ]_vars

\* the second call for a category failed to decode the second of three
\* assets and left the cursor on the third
C19_Witness ==
    /\ ret.outcome = "RuntimeError_decode"
    /\ ret.pre = 1 /\ ret.idx = 1 /\ ret.n = 3
    /\ cursor[ret.inst][ret.category] = 2

====
